---- MODULE Spec2Model ----
(***************************************************************************)
(* Per-chat Thompson Sampling bandit (services/banditService.js) and the   *)
(* request handlers of controllers/chatController.js that drive it.        *)
(*                                                                         *)
(* The store is MongoDB through Mongoose.  Every `await` on a store call   *)
(* is a scheduling point: one action of the model is the code between two  *)
(* awaits of one request handler.  A Mongoose document is a local copy;    *)
(* save() of a new document is an insert, save() of a loaded document      *)
(* sends only the paths modified on the local copy ($push for an array     *)
(* push, $set of arms.<i>.<field> for a field of an array element), with   *)
(* the document version __v handled as Mongoose does.                      *)
(***************************************************************************)
EXTENDS Integers, Sequences, FiniteSets, TLC

VARIABLES
    banditDocs,   \* the BanditChatState collection, in insertion order
    messages,     \* the Message collection; a message's _id is its index
    pc,           \* per request handler: the await it is suspended at
    req,          \* per request handler: the request it is serving
    eff,          \* submitFeedback's effectiveChatId / effectiveArmId
    state,        \* getOrCreateBanditState's local Mongoose document
    target,       \* updateArm: index of armStats in state.arms (0: none)
    chosen,       \* aiReplyHandler: chosenArm.armId
    resp,         \* the response the last step sent (NoResp: it sent none)
    nreq,         \* number of requests started so far
    applied,      \* history: per chat and arm, updateArm saves that succeeded
    loadedArms,   \* history: state.arms as getOrCreateBanditState returned it
    interference, \* history: writes of other requests during this bandit call
    updCalls,     \* history: per message id (0: none), updateArm invocations
    updOverlap,   \* history: per chat, whether two updateArm calls overlapped
    raceSeen,     \* history: per chat, the kinds of stale updateArm saves
    picked,       \* what chooseArm drew and returned in the last step
    chats,        \* the Chat collection: the ids of the conversations
    io,           \* history: reads and writes of the state issued by the
                  \* bandit service call a handler is in
    smp           \* the sampler: position and locals of a sampleBeta or
                  \* sampleGamma call

vars == << banditDocs, messages, pc, req, eff, state, target, chosen, resp,
           nreq, applied, loadedArms, interference, updCalls, updOverlap,
           raceSeen, picked, chats, io, smp >>

----------------------------------------------------------------------------
(* Bounds of the model *)

NumProcs == 2        \* request handlers that can be in flight together
NumChats == 1        \* conversations
MaxRequests == 3     \* requests served in one behaviour
NumSampleLevels == 2 \* distinct values a Beta sample is abstracted to
MaxShape2 == 4       \* largest shape given to the sampler, in halves
MaxDepth == 2        \* nesting of sampleGamma calls the model follows

Procs == 1..NumProcs
Chats == 1..NumChats
AllChats == 1..(NumChats + 1)
SampleVals == 1..NumSampleLevels

----------------------------------------------------------------------------
(* Arm Registry *)

ARMS ==
    << [armId |-> "unified_base", stage |-> "unified",
        modelName |-> "gemini-2.5-flash", notes |-> "Base unified prompt",
        temperature |-> "0.1"],
       [armId |-> "unified_strict_json", stage |-> "unified",
        modelName |-> "gemini-2.5-flash",
        notes |-> "Stricter JSON-only response", temperature |-> "0.05"] >>

RegistryIds == { ARMS[i].armId : i \in DOMAIN ARMS }

BaseId == ARMS[1].armId
StrictId == ARMS[2].armId

\* arm_id values a client can send: registry ids, an id the registry does
\* not know, and the empty string (missing arm_id)
ClientArmIds == RegistryIds \cup {"bogus", ""}

Stages == {"unified", "other"}

----------------------------------------------------------------------------
(* Schemas *)

\* ArmStatsSchema defaults
NewArmStats(armId) == [armId |-> armId, alpha |-> 1, beta |-> 1, pulls |-> 0]

\* (variant: only the first registry arm)
DefaultArmsFirstOnly == << NewArmStats(ARMS[1].armId) >>

\* the arms of a document constructed for a chat with no stored state
DefaultArms == [i \in DOMAIN ARMS |-> NewArmStats(ARMS[i].armId)]

\* no document (findOne returned null / nothing loaded)
NoDoc == [idx |-> 0, chat |-> 0, arms |-> << >>, v |-> 0, pushed |-> << >>]

\* what a handler keeps of its request across its awaits
NoReq == [op |-> "none", messageId |-> 0, reward |-> 0, stage |-> ""]

\* a response: the JSON body's fields and the handler that sent it
NoResp == [proc |-> 0, op |-> "none", status |-> "none", new_stats |-> << >>,
           existingFeedback |-> "null", arm_id |-> "", reward |-> 0,
           stats |-> << >>]

ErrorStatuses == {"400", "403", "404", "500", "NoArmsForStage", "StoreError"}

NoEff == [chat |-> 0, arm |-> ""]

\* no store operation issued
NoIo == [r |-> 0, w |-> 0]

\* no sampler call in progress
SmpIdle == [pc |-> "idle", call |-> "none", alpha2 |-> 0, beta2 |-> 0,
            shape2 |-> 0, depth |-> 0, rec |-> 0, which |-> 0, v |-> 0,
            gA |-> 0, gB |-> 0]

\* chooseArm did not return an arm in this step
NoPick == [stage |-> "", samples |-> << >>, arm |-> << >>]

\* a message id no message has
MissingMessageId == MaxRequests + 1

----------------------------------------------------------------------------
(* Store primitives *)

\* (variant: the filter on chat dropped)
FindOneAny(docs, c) == IF docs = << >> THEN 0 ELSE 1

\* BanditChatState.findOne({ chat }): index of the first match, 0 for null
FindOne(docs, c) ==
    IF \E i \in DOMAIN docs : docs[i].chat = c
    THEN CHOOSE i \in DOMAIN docs :
            /\ docs[i].chat = c
            /\ \A j \in DOMAIN docs : docs[j].chat = c => i <= j
    ELSE 0

\* the local document findOne hands back
Hydrate(docs, i) ==
    IF i = 0 THEN NoDoc
    ELSE [idx |-> i, chat |-> docs[i].chat, arms |-> docs[i].arms,
          v |-> docs[i].v, pushed |-> << >>]

\* the unique index on `chat`: an insert for a chat that has a document
\* fails with duplicate-key error 11000
UniqueViolationOff(docs, c) == FALSE

UniqueViolation(docs, c) == \E i \in DOMAIN docs : docs[i].chat = c

\* (variants: every registry arm taken as missing; none taken as missing)
MissingFromAll(arms, k) == DefaultArms

MissingFromNone(arms, k) == << >>

\* the arms of the registry missing from a loaded document, in registry order
RECURSIVE MissingFrom(_, _)
MissingFrom(arms, k) ==
    IF k > Len(ARMS) THEN << >>
    ELSE IF \E i \in DOMAIN arms : arms[i].armId = ARMS[k].armId
         THEN MissingFrom(arms, k + 1)
         ELSE << NewArmStats(ARMS[k].armId) >> \o MissingFrom(arms, k + 1)

\* state.arms.find((a) => a.armId === armId): first index, 0 if none
FindArm(arms, armId) ==
    IF \E i \in DOMAIN arms : arms[i].armId = armId
    THEN CHOOSE i \in DOMAIN arms :
            /\ arms[i].armId = armId
            /\ \A j \in DOMAIN arms : arms[j].armId = armId => i <= j
    ELSE 0

----------------------------------------------------------------------------
(* Initial state: no request in flight, no message.  The bandit collection *)
(* is empty, or holds for chat 1 a document written when the registry had  *)
(* only its first arm.                                                     *)

LegacyDoc == [chat |-> 1, arms |-> << NewArmStats(ARMS[1].armId) >>, v |-> 0]

ZeroApplied == [c \in AllChats |-> [a \in RegistryIds |-> [up |-> 0, down |-> 0]]]

\* everything but the two collections the initial states differ in
InitHandlers ==
    /\ messages = << >>
    /\ pc = [p \in Procs |-> "idle"]
    /\ req = [p \in Procs |-> NoReq]
    /\ eff = [p \in Procs |-> NoEff]
    /\ state = [p \in Procs |-> NoDoc]
    /\ target = [p \in Procs |-> 0]
    /\ chosen = [p \in Procs |-> ""]
    /\ resp = NoResp
    /\ nreq = 0
    /\ applied = ZeroApplied
    /\ loadedArms = [p \in Procs |-> << >>]
    /\ interference = [p \in Procs |-> {}]
    /\ updCalls = [m \in 0..MaxRequests |-> 0]
    /\ updOverlap = [c \in AllChats |-> FALSE]
    /\ raceSeen = [c \in AllChats |-> {}]
    /\ picked = NoPick
    /\ io = [p \in Procs |-> NoIo]
    /\ smp = SmpIdle

Init ==
    /\ banditDocs \in { << >>, << LegacyDoc >> }
    /\ chats = Chats
    /\ InitHandlers

----------------------------------------------------------------------------
(* Bookkeeping shared by the actions *)

\* the awaits of the bandit service (getOrCreateBanditState .. state.save())
BanditPcs == {"find", "insert", "reread", "reconcile", "loaded", "upd_save"}

InBanditCall(p) == pc[p] \in BanditPcs

InUpdateArm(p) == InBanditCall(p) /\ req[p].op = "submitFeedback"

\* request q wrote the bandit document of chat c: every other request that
\* is inside a bandit call on c records it, with the await it was at
NoteWrite(q, c, kind, arm) ==
    [p \in Procs |->
        IF p # q /\ InBanditCall(p) /\ eff[p].chat = c
        THEN interference[p] \cup
                { [kind |-> kind, arm |-> arm, phase |-> pc[p]] }
        ELSE interference[p]]

\* res.json(...) / res.status(...).json(...): the handler is finished and
\* its locals are gone; intf is the interference record after this step
Respond(p, r, intf) ==
    /\ pc' = [pc EXCEPT ![p] = "idle"]
    /\ resp' = [r EXCEPT !.proc = p]
    /\ req' = [req EXCEPT ![p] = NoReq]
    /\ eff' = [eff EXCEPT ![p] = NoEff]
    /\ state' = [state EXCEPT ![p] = NoDoc]
    /\ target' = [target EXCEPT ![p] = 0]
    /\ chosen' = [chosen EXCEPT ![p] = ""]
    /\ loadedArms' = [loadedArms EXCEPT ![p] = << >>]
    /\ interference' = [intf EXCEPT ![p] = {}]
    /\ io' = [io EXCEPT ![p] = NoIo]

\* a handler that is not serving a request, lowest slot first
Free(p) ==
    /\ pc[p] = "idle"
    /\ \A q \in Procs : q < p => pc[q] # "idle"

Status(op, s) == [NoResp EXCEPT !.op = op, !.status = s]

\* the caller enters getOrCreateBanditState
EnterBandit(p) ==
    /\ pc' = [pc EXCEPT ![p] = "find"]
    /\ state' = [state EXCEPT ![p] = NoDoc]
    /\ target' = [target EXCEPT ![p] = 0]
    /\ loadedArms' = [loadedArms EXCEPT ![p] = << >>]
    /\ interference' = [interference EXCEPT ![p] = {}]
    /\ io' = [io EXCEPT ![p] = [r |-> 1, w |-> 0]]

----------------------------------------------------------------------------
(* getOrCreateBanditState *)

\* let state = await BanditChatState.findOne({ chat: chatId }), and the
\* synchronous code up to the next await
Find(p) ==
    /\ pc[p] = "find"
    /\ LET i == FindOne(banditDocs, eff[p].chat)
           d == Hydrate(banditDocs, i)
           miss == MissingFrom(d.arms, 1)
       IN  IF i = 0
           THEN /\ state' = [state EXCEPT ![p] =
                        [idx |-> 0, chat |-> eff[p].chat, arms |-> DefaultArms,
                         v |-> 0, pushed |-> << >>]]
                /\ pc' = [pc EXCEPT ![p] = "insert"]
                /\ io' = [io EXCEPT ![p].w = @ + 1]
                /\ UNCHANGED loadedArms
           ELSE IF miss # << >>
           THEN /\ state' = [state EXCEPT ![p] =
                        [d EXCEPT !.arms = d.arms \o miss, !.pushed = miss]]
                /\ pc' = [pc EXCEPT ![p] = "reconcile"]
                /\ io' = [io EXCEPT ![p].w = @ + 1]
                /\ UNCHANGED loadedArms
           ELSE /\ state' = [state EXCEPT ![p] = d]
                /\ pc' = [pc EXCEPT ![p] = "loaded"]
                /\ loadedArms' = [loadedArms EXCEPT ![p] = d.arms]
                /\ UNCHANGED io
    /\ resp' = NoResp
    /\ UNCHANGED << banditDocs, messages, req, eff, target, chosen, nreq,
                    applied, interference, updCalls, updOverlap, raceSeen >>
    /\ picked' = NoPick
    /\ UNCHANGED << chats, smp >>

\* await state.save() of the new document; on error 11000 the catch block
Insert(p) ==
    /\ pc[p] = "insert"
    /\ IF UniqueViolation(banditDocs, state[p].chat)
       THEN /\ pc' = [pc EXCEPT ![p] = "reread"]
            /\ io' = [io EXCEPT ![p].r = @ + 1]
            /\ UNCHANGED << banditDocs, state, loadedArms, interference >>
       ELSE /\ banditDocs' = Append(banditDocs,
                    [chat |-> state[p].chat, arms |-> state[p].arms, v |-> 0])
            /\ state' = [state EXCEPT ![p].idx = Len(banditDocs) + 1]
            /\ pc' = [pc EXCEPT ![p] = "loaded"]
            /\ loadedArms' = [loadedArms EXCEPT ![p] = state[p].arms]
            /\ interference' = NoteWrite(p, state[p].chat, "insert", "")
            /\ UNCHANGED io
    /\ resp' = NoResp
    /\ UNCHANGED << messages, req, eff, target, chosen, nreq, applied,
                    updCalls, updOverlap, raceSeen >>
    /\ picked' = NoPick
    /\ UNCHANGED << chats, smp >>

\* (variant: after the re-read the call starts over with another findOne)
RereadLoop(p) ==
    /\ pc[p] = "reread"
    /\ pc' = [pc EXCEPT ![p] = "find"]
    /\ io' = [io EXCEPT ![p].r = @ + 1]
    /\ resp' = NoResp
    /\ picked' = NoPick
    /\ UNCHANGED << banditDocs, messages, req, eff, state, target, chosen,
                    nreq, applied, loadedArms, interference, updCalls,
                    updOverlap, raceSeen, chats, smp >>

\* state = await BanditChatState.findOne({ chat: chatId }) after error 11000
Reread(p) ==
    /\ pc[p] = "reread"
    /\ LET d == Hydrate(banditDocs, FindOne(banditDocs, eff[p].chat))
       IN  /\ state' = [state EXCEPT ![p] = d]
           /\ loadedArms' = [loadedArms EXCEPT ![p] = d.arms]
    /\ pc' = [pc EXCEPT ![p] = "loaded"]
    /\ UNCHANGED io
    /\ resp' = NoResp
    /\ UNCHANGED << banditDocs, messages, req, eff, target, chosen, nreq,
                    applied, interference, updCalls, updOverlap, raceSeen >>
    /\ picked' = NoPick
    /\ UNCHANGED << chats, smp >>

\* await state.save() after state.arms.push(...): Mongoose sends
\* { $push: { arms: { $each: pushed } }, $inc: { __v: 1 } } filtered by _id
ReconcileSave(p) ==
    /\ pc[p] = "reconcile"
    /\ LET i == state[p].idx
       IN  banditDocs' = [banditDocs EXCEPT
                ![i].arms = @ \o state[p].pushed, ![i].v = @ + 1]
    /\ state' = [state EXCEPT ![p].v = @ + 1, ![p].pushed = << >>]
    /\ pc' = [pc EXCEPT ![p] = "loaded"]
    /\ loadedArms' = [loadedArms EXCEPT ![p] = state[p].arms]
    /\ interference' = NoteWrite(p, state[p].chat, "push", "")
    /\ UNCHANGED io
    /\ resp' = NoResp
    /\ UNCHANGED << messages, req, eff, target, chosen, nreq, applied,
                    updCalls, updOverlap, raceSeen >>
    /\ picked' = NoPick
    /\ UNCHANGED << chats, smp >>

----------------------------------------------------------------------------
(* updateArm *)

\* armStats.pulls += 1; reward === 1 ? armStats.alpha += 1 : armStats.beta += 1
RewardSwapped(a, reward) ==
    [a EXCEPT !.pulls = @ + 1,
              !.alpha = IF reward = 1 THEN @ ELSE @ + 1,
              !.beta = IF reward = 1 THEN @ + 1 ELSE @]

RewardTwice(a, reward) ==
    [a EXCEPT !.pulls = @ + 2,
              !.alpha = IF reward = 1 THEN @ + 1 ELSE @,
              !.beta = IF reward = 1 THEN @ ELSE @ + 1]

Reward(a, reward) ==
    [a EXCEPT !.pulls = @ + 1,
              !.alpha = IF reward = 1 THEN @ + 1 ELSE @,
              !.beta = IF reward = 1 THEN @ ELSE @ + 1]

\* (variants: an atomic $inc of the counters; a $set of the whole array)
SaveArmInc(stored, t, local, reward) ==
    [stored EXCEPT ![t] =
        [@ EXCEPT !.pulls = @ + 1,
                  !.alpha = IF reward = 1 THEN @ + 1 ELSE @,
                  !.beta = IF reward = 1 THEN @ ELSE @ + 1]]

SaveWholeArms(stored, t, local, reward) == local

\* what state.save() writes for the mutated armStats at index t: Mongoose
\* sends $set of the paths assigned on the local copy, arms.<t>.pulls and
\* one of arms.<t>.alpha / arms.<t>.beta, and nothing else of the document
SaveArmFields(stored, t, local, reward) ==
    [stored EXCEPT ![t] =
        [@ EXCEPT !.pulls = local[t].pulls,
                  !.alpha = IF reward = 1 THEN local[t].alpha ELSE @,
                  !.beta = IF reward = 1 THEN @ ELSE local[t].beta]]

\* the version filter Mongoose adds to a $set below an array index:
\* the update matches only while the stored __v is the loaded one
VersionMatches(doc, local) == doc.v = local.v

\* after getOrCreateBanditState returned: find the arm, mutate the local copy
UpdateArmApply(p) ==
    /\ pc[p] = "loaded"
    /\ req[p].op = "submitFeedback"
    /\ LET t == FindArm(state[p].arms, eff[p].arm)
       IN  IF state[p].idx = 0
           THEN \* state is null: state.arms throws, the handler answers 500
                Respond(p, Status("submitFeedback", "500"), interference)
           ELSE IF t = 0
           THEN \* return null; submitFeedback answers "success"
                Respond(p, [Status("submitFeedback", "success") EXCEPT
                                !.arm_id = eff[p].arm,
                                !.reward = req[p].reward], interference)
           ELSE /\ state' = [state EXCEPT ![p].arms[t] =
                                Reward(@, req[p].reward)]
                /\ target' = [target EXCEPT ![p] = t]
                /\ pc' = [pc EXCEPT ![p] = "upd_save"]
                /\ resp' = NoResp
                /\ io' = [io EXCEPT ![p].w = @ + 1]
                /\ UNCHANGED << req, eff, chosen, loadedArms, interference >>
    /\ UNCHANGED << banditDocs, messages, nreq, applied, updCalls, updOverlap,
                    raceSeen >>
    /\ picked' = NoPick
    /\ UNCHANGED << chats, smp >>

\* await state.save(), then return after
UpdateArmSave(p) ==
    /\ pc[p] = "upd_save"
    /\ LET i == state[p].idx
           t == target[p]
           c == state[p].chat
           a == state[p].arms[t]
       IN  IF VersionMatches(banditDocs[i], state[p])
           THEN /\ banditDocs' = [banditDocs EXCEPT ![i].arms =
                        SaveArmFields(@, t, state[p].arms, req[p].reward)]
                /\ Respond(p, [Status("submitFeedback", "success") EXCEPT
                        !.arm_id = eff[p].arm, !.reward = req[p].reward,
                        !.new_stats = << [alpha |-> a.alpha, beta |-> a.beta,
                                          pulls |-> a.pulls] >>],
                        NoteWrite(p, c, "set", a.armId))
                /\ applied' = [applied EXCEPT ![c][a.armId] =
                        IF req[p].reward = 1
                        THEN [@ EXCEPT !.up = @ + 1]
                        ELSE [@ EXCEPT !.down = @ + 1]]
                /\ raceSeen' = [raceSeen EXCEPT ![c] = @ \cup
                        { IF w.arm = a.armId THEN "same" ELSE "other" :
                            w \in { x \in interference[p] :
                                     x.kind = "set" /\ x.phase = "upd_save" } }]
           ELSE \* VersionError: thrown to submitFeedback's catch
                /\ Respond(p, Status("submitFeedback", "500"), interference)
                /\ UNCHANGED << banditDocs, applied, raceSeen >>
    /\ UNCHANGED << messages, nreq, updCalls, updOverlap >>
    /\ picked' = NoPick
    /\ UNCHANGED << chats, smp >>

----------------------------------------------------------------------------
(* submitFeedback *)

\* rewardNum === 1 ? "up" : "down"
NextFeedback(reward) == IF reward = 1 THEN "up" ELSE "down"

\* banditService.updateArm(effectiveChatId, effectiveArmId, rewardNum) is
\* invoked by request r of handler p: it enters getOrCreateBanditState
CallUpdateArm(p, r, e) ==
    /\ EnterBandit(p)
    /\ updCalls' = [updCalls EXCEPT ![r.messageId] = @ + 1]
    /\ updOverlap' = [updOverlap EXCEPT ![e.chat] =
            @ \/ \E q \in Procs \ {p} : InUpdateArm(q) /\ eff[q].chat = e.chat]
    /\ UNCHANGED raceSeen

\* effectiveChatId and effectiveArmId: the message's own chat, and its own
\* armId when it has one, else what the client sent
\* (variant: the client's arm_id and chatId win over the message's)
EffectiveClient(msgs, messageId, arm_id, chatId) ==
    [chat |-> IF chatId # 0 THEN chatId
              ELSE IF messageId # 0 /\ messageId \in DOMAIN msgs
              THEN msgs[messageId].chat ELSE 0,
     arm |-> arm_id]

Effective(msgs, messageId, arm_id, chatId) ==
    IF messageId # 0 /\ messageId \in DOMAIN msgs
    THEN [chat |-> msgs[messageId].chat,
          arm |-> IF msgs[messageId].armId # "null"
                  THEN msgs[messageId].armId ELSE arm_id]
    ELSE [chat |-> chatId, arm |-> arm_id]

\* the request bodies a client sends: arm_id ("": missing or empty), reward
\* (2 stands for any value other than 0 and 1), messageId and chatId
\* (0: absent).  One body with an invalid reward stands for all such
\* bodies, which are rejected before anything else of them is read.
FeedbackBodies(msgs) ==
    [arm_id : ClientArmIds, reward : {0, 1},
     messageId : {0, MissingMessageId} \cup DOMAIN msgs,
     chatId : {0} \cup chats]
    \cup { [arm_id |-> BaseId, reward |-> 2, messageId |-> 0, chatId |-> 1] }

\* the handler serving one request body, from its entry to the await of
\* Message.findOneAndUpdate (or, without messageId, to the call of
\* updateArm).  access is the outcome of the chat / project / team
\* membership checks.
SubmitFeedbackBody(p, body, access) ==
    /\ LET arm_id == body.arm_id
           reward == body.reward
           messageId == body.messageId
           chatId == body.chatId
           r == [op |-> "submitFeedback",
                 messageId |-> messageId, reward |-> reward, stage |-> ""]
           found == messageId \in DOMAIN messages
           e == Effective(messages, messageId, arm_id, chatId)
           effChat == e.chat
           early == IF arm_id = "" \/ reward \notin {0, 1} THEN "400"
                    ELSE IF messageId # 0 /\ ~found THEN "404"
                    ELSE IF messageId # 0
                            /\ messages[messageId].sender # "chatbot"
                         THEN "400"
                    ELSE IF effChat = 0 THEN "400"
                    ELSE IF access # "ok" THEN access
                    ELSE ""
       IN  IF early # ""
           THEN /\ Respond(p, Status("submitFeedback", early), interference)
                /\ UNCHANGED << updCalls, updOverlap, raceSeen >>
           ELSE IF messageId # 0
           THEN /\ pc' = [pc EXCEPT ![p] = "gate"]
                /\ req' = [req EXCEPT ![p] = r]
                /\ eff' = [eff EXCEPT ![p] = e]
                /\ resp' = NoResp
                /\ UNCHANGED << state, target, chosen, loadedArms, io,
                                interference, updCalls, updOverlap,
                                raceSeen >>
           ELSE /\ req' = [req EXCEPT ![p] = r]
                /\ eff' = [eff EXCEPT ![p] = e]
                /\ CallUpdateArm(p, r, e)
                /\ resp' = NoResp
                /\ UNCHANGED << chosen >>
    /\ nreq' = nreq + 1
    /\ UNCHANGED << banditDocs, messages, applied >>
    /\ picked' = NoPick
    /\ UNCHANGED << chats, smp >>

\* a request arrives at a free handler
SubmitFeedbackStart(p) ==
    /\ Free(p)
    /\ nreq < MaxRequests
    /\ \E body \in FeedbackBodies(messages), access \in {"ok", "403", "404"} :
        SubmitFeedbackBody(p, body, access)

\* the filter of Message.findOneAndUpdate({ _id, feedback: null }, ...)
GateFilterOff(m) == TRUE

GateFilter(m) == m.feedback = "null"

\* const updated = await Message.findOneAndUpdate(
\*     { _id: messageId, feedback: null }, { $set: { feedback } })
SubmitFeedbackGate(p) ==
    /\ pc[p] = "gate"
    /\ LET m == req[p].messageId
       IN  IF GateFilter(messages[m])
           THEN /\ messages' = [messages EXCEPT ![m].feedback =
                                    NextFeedback(req[p].reward)]
                /\ CallUpdateArm(p, req[p], eff[p])
           ELSE /\ pc' = [pc EXCEPT ![p] = "gate_reread"]
                /\ UNCHANGED << messages, state, target, loadedArms, io,
                                interference, updCalls, updOverlap, raceSeen >>
    /\ resp' = NoResp
    /\ UNCHANGED << banditDocs, req, eff, chosen, nreq, applied >>
    /\ picked' = NoPick
    /\ UNCHANGED << chats, smp >>

\* the feedback value the "already_rated" answer carries
ExistingFeedbackRequested(existing, reward) == NextFeedback(reward)

ExistingFeedback(existing, reward) == existing.feedback

\* const existing = await Message.findById(messageId) when nothing was updated
SubmitFeedbackReread(p) ==
    /\ pc[p] = "gate_reread"
    /\ LET existing == messages[req[p].messageId]
       IN  IF existing.feedback # "null"
           THEN /\ Respond(p, [Status("submitFeedback", "already_rated") EXCEPT
                        !.arm_id = eff[p].arm, !.reward = req[p].reward,
                        !.existingFeedback =
                            ExistingFeedback(existing, req[p].reward)],
                        interference)
                /\ UNCHANGED << updCalls, updOverlap, raceSeen >>
           ELSE /\ CallUpdateArm(p, req[p], eff[p])
                /\ resp' = NoResp
                /\ UNCHANGED << req, eff, chosen >>
    /\ UNCHANGED << banditDocs, messages, nreq, applied >>
    /\ picked' = NoPick
    /\ UNCHANGED << chats, smp >>

----------------------------------------------------------------------------
(* getBanditStats *)

\* state.arms.reduce((acc, arm) => { acc[arm.armId] = {...}; return acc }, {}):
\* one entry per armId, keys in order of first occurrence, the last value
RECURSIVE StatsObject(_, _, _)
StatsObject(arms, k, acc) ==
    IF k > Len(arms) THEN acc
    ELSE LET a == arms[k]
             j == FindArm(acc, a.armId)
         IN  StatsObject(arms, k + 1,
                 IF j = 0 THEN Append(acc, a) ELSE [acc EXCEPT ![j] = a])

\* the controller up to banditService.getBanditStats(chatId)
GetBanditStatsStart(p) ==
    /\ Free(p)
    /\ nreq < MaxRequests
    /\ \E chatId \in {0} \cup chats, access \in {"ok", "403", "404"} :
        IF chatId = 0 \/ access # "ok"
        THEN Respond(p, Status("getBanditStats",
                               IF chatId = 0 THEN "400" ELSE access),
                     interference)
        ELSE /\ req' = [req EXCEPT ![p] = [NoReq EXCEPT
                            !.op = "getBanditStats"]]
             /\ eff' = [eff EXCEPT ![p] = [chat |-> chatId, arm |-> ""]]
             /\ EnterBandit(p)
             /\ resp' = NoResp
             /\ UNCHANGED << chosen >>
    /\ nreq' = nreq + 1
    /\ UNCHANGED << banditDocs, messages, applied, updCalls, updOverlap,
                    raceSeen >>
    /\ picked' = NoPick
    /\ UNCHANGED << chats, smp >>

\* getOrCreateBanditState returned to getBanditStats
GetBanditStatsReturn(p) ==
    /\ pc[p] = "loaded"
    /\ req[p].op = "getBanditStats"
    /\ IF state[p].idx = 0
       THEN Respond(p, Status("getBanditStats", "500"), interference)
       ELSE Respond(p, [Status("getBanditStats", "ok") EXCEPT
                !.stats = StatsObject(state[p].arms, 1, << >>)], interference)
    /\ UNCHANGED << banditDocs, messages, nreq, applied, updCalls, updOverlap,
                    raceSeen >>
    /\ picked' = NoPick
    /\ UNCHANGED << chats, smp >>

----------------------------------------------------------------------------
(* chooseArm and aiReplyHandler *)

\* ARMS.filter((a) => a.stage === stage)
\* (variant: no filter)
CandidatesAll(stage) == ARMS

Candidates(stage) == SelectSeq(ARMS, LAMBDA a : a.stage = stage)

\* (variant: the last candidate holding the largest sample)
ArgMaxLast(samples) ==
    CHOOSE i \in DOMAIN samples :
        /\ \A j \in DOMAIN samples : samples[j] <= samples[i]
        /\ \A j \in DOMAIN samples : samples[j] = samples[i] => j <= i

\* samples.sort((a, b) => b.sample - a.sample)[0]: the sort is stable, so
\* the first candidate holding the largest sample
ArgMaxFirst(samples) ==
    CHOOSE i \in DOMAIN samples :
        /\ \A j \in DOMAIN samples : samples[j] <= samples[i]
        /\ \A j \in DOMAIN samples : samples[j] = samples[i] => i <= j

\* (variant: the stage is checked before the state is loaded)
ChooseArmStartChecked(p) ==
    /\ Free(p)
    /\ nreq < MaxRequests
    /\ \E chatId \in chats, stage \in Stages :
        IF Len(Candidates(stage)) = 0
        THEN Respond(p, Status("chooseArm", "NoArmsForStage"), interference)
        ELSE /\ req' = [req EXCEPT ![p] = [NoReq EXCEPT
                            !.op = "chooseArm", !.stage = stage]]
             /\ eff' = [eff EXCEPT ![p] = [chat |-> chatId, arm |-> ""]]
             /\ EnterBandit(p)
             /\ resp' = NoResp
             /\ UNCHANGED chosen
    /\ nreq' = nreq + 1
    /\ UNCHANGED << banditDocs, messages, applied, updCalls, updOverlap,
                    raceSeen >>
    /\ picked' = NoPick
    /\ UNCHANGED << chats, smp >>

\* banditService.chooseArm(chatId, stage) called directly
ChooseArmStart(p) ==
    /\ Free(p)
    /\ nreq < MaxRequests
    /\ \E chatId \in chats, stage \in Stages :
        /\ req' = [req EXCEPT ![p] = [NoReq EXCEPT
                        !.op = "chooseArm", !.stage = stage]]
        /\ eff' = [eff EXCEPT ![p] = [chat |-> chatId, arm |-> ""]]
    /\ EnterBandit(p)
    /\ nreq' = nreq + 1
    /\ resp' = NoResp
    /\ UNCHANGED << banditDocs, messages, chosen, applied, updCalls,
                    updOverlap, raceSeen >>
    /\ picked' = NoPick
    /\ UNCHANGED << chats, smp >>

\* aiReplyHandler up to banditService.chooseArm(chat._id, "unified")
AiReplyStart(p) ==
    /\ Free(p)
    /\ nreq < MaxRequests
    /\ \E chatId \in chats :
        /\ req' = [req EXCEPT ![p] = [NoReq EXCEPT
                        !.op = "aiReply", !.stage = "unified"]]
        /\ eff' = [eff EXCEPT ![p] = [chat |-> chatId, arm |-> ""]]
    /\ EnterBandit(p)
    /\ nreq' = nreq + 1
    /\ resp' = NoResp
    /\ UNCHANGED << banditDocs, messages, chosen, applied, updCalls,
                    updOverlap, raceSeen >>
    /\ picked' = NoPick
    /\ UNCHANGED << chats, smp >>

\* the object chooseArm returns for a registry entry
Config(arm) ==
    [armId |-> arm.armId, modelName |-> arm.modelName,
     temperature |-> arm.temperature, notes |-> arm.notes]

\* getOrCreateBanditState returned to chooseArm: filter by stage, draw one
\* sample per candidate (any value of the open unit interval, here one of
\* SampleVals), pick the largest
ChooseArmPick(p) ==
    /\ pc[p] = "loaded"
    /\ req[p].op \in {"chooseArm", "aiReply"}
    /\ LET cands == Candidates(req[p].stage)
           op == req[p].op
       IN  IF state[p].idx = 0
           THEN /\ Respond(p, Status(op, "500"), interference)
                /\ picked' = NoPick
           ELSE IF Len(cands) = 0
           THEN /\ Respond(p, Status(op, IF op = "chooseArm"
                                         THEN "NoArmsForStage" ELSE "500"),
                           interference)
                /\ picked' = NoPick
           ELSE \E samples \in [DOMAIN cands -> SampleVals] :
                  LET arm == cands[ArgMaxFirst(samples)]
                  IN  /\ picked' = [stage |-> req[p].stage,
                                    samples |-> samples,
                                    arm |-> << Config(arm) >>]
                      /\ IF op = "chooseArm"
                         THEN Respond(p, [Status(op, "ok") EXCEPT
                                          !.arm_id = arm.armId], interference)
                         ELSE /\ chosen' = [chosen EXCEPT ![p] = arm.armId]
                              /\ pc' = [pc EXCEPT ![p] = "ai_create"]
                              /\ resp' = NoResp
                              /\ UNCHANGED << req, eff, state, target,
                                              loadedArms, interference,
                                              io >>
    /\ UNCHANGED << banditDocs, messages, nreq, applied, updCalls, updOverlap,
                    raceSeen >>
    /\ UNCHANGED << chats, smp >>

\* the armId the bot message is saved with, given chosenArm.armId and the
\* arm_id of the generator's response (variant: the generator's)
TagArmReported(chosenArm, reported) == reported

TagArm(chosenArm, reported) == chosenArm

\* the generator call, then Message.create({ chat, sender: "chatbot",
\* armId: chosenArm.armId, feedback: null }); a failing generator call is
\* caught and answered with an error.  reported is the arm_id of the
\* generator's response.
AiReplyCreate(p) ==
    /\ pc[p] = "ai_create"
    /\ \E generated \in BOOLEAN, reported \in ClientArmIds :
        IF generated
        THEN /\ messages' = Append(messages,
                    [chat |-> eff[p].chat, sender |-> "chatbot",
                     armId |-> TagArm(chosen[p], reported),
                     feedback |-> "null"])
             /\ Respond(p, [Status("aiReply", "ok") EXCEPT
                                !.arm_id = chosen[p]], interference)
        ELSE /\ Respond(p, Status("aiReply", "500"), interference)
             /\ UNCHANGED messages
    /\ UNCHANGED << banditDocs, nreq, applied, updCalls, updOverlap,
                    raceSeen >>
    /\ picked' = NoPick
    /\ UNCHANGED << chats, smp >>

\* chatHandler: Message.create({ chat, sender: "user", ... })
ChatHandler(p) ==
    /\ Free(p)
    /\ nreq < MaxRequests
    /\ \E chatId \in chats :
        messages' = Append(messages,
                [chat |-> chatId, sender |-> "user", armId |-> "null",
                 feedback |-> "null"])
    /\ Respond(p, Status("chat", "ok"), interference)
    /\ nreq' = nreq + 1
    /\ UNCHANGED << banditDocs, applied, updCalls, updOverlap, raceSeen >>
    /\ picked' = NoPick
    /\ UNCHANGED << chats, smp >>

----------------------------------------------------------------------------
(* The system: any handler takes its next step *)

Next ==
    \E p \in Procs :
        \/ SubmitFeedbackStart(p)
        \/ SubmitFeedbackGate(p)
        \/ SubmitFeedbackReread(p)
        \/ GetBanditStatsStart(p)
        \/ GetBanditStatsReturn(p)
        \/ ChooseArmStart(p)
        \/ AiReplyStart(p)
        \/ ChooseArmPick(p)
        \/ AiReplyCreate(p)
        \/ ChatHandler(p)
        \/ Find(p)
        \/ Insert(p)
        \/ Reread(p)
        \/ ReconcileSave(p)
        \/ UpdateArmApply(p)
        \/ UpdateArmSave(p)

Spec == Init /\ [][Next]_vars

\* The store is unavailable: the read or write handler p awaits rejects.
\* getOrCreateBanditState catches only code 11000 of the insert, chooseArm
\* and updateArm catch nothing: the error reaches the caller, a request
\* handler's catch block (answer 500) or the direct caller of chooseArm.
StoreOpPcs == {"find", "insert", "reread", "reconcile", "upd_save"}

StoreFails(p) ==
    /\ pc[p] \in StoreOpPcs
    /\ Respond(p, Status(req[p].op, IF req[p].op = "chooseArm"
                                    THEN "StoreError" ELSE "500"),
               interference)
    /\ picked' = NoPick
    /\ UNCHANGED << banditDocs, messages, nreq, applied, updCalls, updOverlap,
                    raceSeen, chats, smp >>

NextFaults ==
    \/ Next
    \/ \E p \in Procs : StoreFails(p)

SpecFaults == Init /\ [][NextFaults]_vars

\* two conversations: the one whose stored state holds one arm, and one
\* that has no stored state
InitTwoChats ==
    /\ banditDocs = << LegacyDoc >>
    /\ chats = AllChats
    /\ InitHandlers

SpecTwoChats == InitTwoChats /\ [][Next]_vars

----------------------------------------------------------------------------
(* The sampler: sampleBeta, sampleGamma, randn.  Shapes are counted in     *)
(* halves (shape2 = 2 * shape).  A draw of randn() is abstracted to the    *)
(* value of v = 1 + c * x it gives: negative, zero, or one of the positive *)
(* levels; d * v * v * v has the sign of v, and is given v's level.        *)

VVals == (0 - 1)..NumSampleLevels

BetaShapes == 2..MaxShape2
GammaShapes == 1..MaxShape2

mainVars == << banditDocs, messages, pc, req, eff, state, target, chosen,
               resp, nreq, applied, loadedArms, interference, updCalls,
               updOverlap, raceSeen, picked, chats, io >>

\* sampleBeta(alpha, beta): const gammaA = sampleGamma(alpha)
SampleBetaCall ==
    /\ smp.pc = "idle"
    /\ \E a2 \in BetaShapes, b2 \in BetaShapes :
        smp' = [SmpIdle EXCEPT !.pc = "entry", !.call = "sampleBeta",
                               !.alpha2 = a2, !.beta2 = b2, !.shape2 = a2,
                               !.which = 1]
    /\ UNCHANGED mainVars

\* sampleGamma(shape) called on its own
SampleGammaCall ==
    /\ smp.pc = "idle"
    /\ \E s2 \in GammaShapes :
        smp' = [SmpIdle EXCEPT !.pc = "entry", !.call = "sampleGamma",
                               !.alpha2 = s2, !.shape2 = s2]
    /\ UNCHANGED mainVars

\* the argument of the recursive call, shape + 1 (variant: shape)
ShapeSame(shape2) == shape2

ShapePlusOne(shape2) == shape2 + 2

\* if (shape < 1) return sampleGamma(shape + 1) * ...; else d, c and the loop
GammaEntry ==
    /\ smp.pc = "entry"
    /\ IF smp.shape2 < 2
       THEN /\ smp.depth < MaxDepth
            /\ smp' = [smp EXCEPT !.shape2 = ShapePlusOne(@),
                                  !.depth = @ + 1, !.rec = @ + 1]
       ELSE smp' = [smp EXCEPT !.pc = "draw"]
    /\ UNCHANGED mainVars

\* the condition of do { x = randn(); v = 1 + c * x } while (v <= 0)
\* (variant: v < 0)
RetryNegative(v) == v < 0

Retry(v) == v <= 0

\* one pass of the do-while that draws again
GammaDrawRetry ==
    /\ smp.pc = "draw"
    /\ \E v \in VVals :
        /\ Retry(v)
        /\ smp' = [smp EXCEPT !.v = v]
    /\ UNCHANGED mainVars

\* the pass of the do-while that leaves it; then v = v * v * v, u drawn
GammaDrawPositive ==
    /\ smp.pc = "draw"
    /\ \E v \in VVals :
        /\ ~Retry(v)
        /\ smp' = [smp EXCEPT !.v = v, !.pc = "test"]
    /\ UNCHANGED mainVars

\* one of the two tests on u holds: return d * v
GammaAccept ==
    /\ smp.pc = "test"
    /\ smp' = [smp EXCEPT !.pc = "ret"]
    /\ UNCHANGED mainVars

\* neither test holds: the while (true) loop goes round
GammaReject ==
    /\ smp.pc = "test"
    /\ smp' = [smp EXCEPT !.pc = "draw"]
    /\ UNCHANGED mainVars

\* the recursive call returned: times Math.pow(Math.random(), 1 / shape),
\* where Math.random() is 0 or positive
GammaUnwind ==
    /\ smp.pc = "ret"
    /\ smp.depth > 0
    /\ \E u \in {0, 1} :
        smp' = [smp EXCEPT !.v = IF u = 0 THEN 0 ELSE @,
                           !.depth = @ - 1, !.shape2 = @ - 2]
    /\ UNCHANGED mainVars

\* the outermost sampleGamma returned to its caller: sampleBeta goes on
\* with gammaB, or returns gammaA / (gammaA + gammaB)
GammaDeliver ==
    /\ smp.pc = "ret"
    /\ smp.depth = 0
    /\ smp' = IF smp.call = "sampleBeta" /\ smp.which = 1
              THEN [smp EXCEPT !.gA = smp.v, !.which = 2, !.pc = "entry",
                               !.shape2 = smp.beta2, !.rec = 0, !.v = 0]
              ELSE IF smp.call = "sampleBeta"
              THEN [smp EXCEPT !.gB = smp.v, !.pc = "done"]
              ELSE [smp EXCEPT !.gA = smp.v, !.pc = "done"]
    /\ UNCHANGED mainVars

\* the caller took the value: nothing of the call is kept
SamplerReturn ==
    /\ smp.pc = "done"
    /\ smp' = SmpIdle
    /\ UNCHANGED mainVars

SamplerInit ==
    /\ banditDocs = << >>
    /\ chats = Chats
    /\ InitHandlers

SamplerNext ==
    \/ SampleBetaCall
    \/ SampleGammaCall
    \/ GammaEntry
    \/ GammaDrawRetry
    \/ GammaDrawPositive
    \/ GammaAccept
    \/ GammaReject
    \/ GammaUnwind
    \/ GammaDeliver
    \/ SamplerReturn

\* the code runs on without waiting, and the draws are fair: the do-while
\* is left and a test on u holds in one of the rounds
SamplerFairness ==
    /\ WF_vars(GammaEntry)
    /\ WF_vars(GammaDrawPositive)
    /\ SF_vars(GammaAccept)
    /\ WF_vars(GammaUnwind)
    /\ WF_vars(GammaDeliver)

SamplerSpec == SamplerInit /\ [][SamplerNext]_vars /\ SamplerFairness

----------------------------------------------------------------------------
(* Helpers of the properties *)

\* the stored documents of chat c
DocsOf(docs, c) == { i \in DOMAIN docs : docs[i].chat = c }

\* handler p finished its request in this step
Finishes(p) == pc[p] # "idle" /\ pc'[p] = "idle"

\* handler p completed updateArm's save in this step
SavesUpdate(p) ==
    /\ pc[p] = "upd_save"
    /\ Finishes(p)
    /\ resp'.status = "success"

\* another updateArm saved arm a after p loaded and before p saved
RacedOn(intf, a) == [kind |-> "set", arm |-> a, phase |-> "upd_save"] \in intf

----------------------------------------------------------------------------
(* C1: concurrent getOrCreateBanditState calls on a conversation with no   *)
(* stored state leave exactly one document for it (never two), and every   *)
(* call, the one that inserted and the ones that re-read after the         *)
(* duplicate-key error, returns the contents of that stored document.      *)

OneDocPerChat == \A c \in Chats : Cardinality(DocsOf(banditDocs, c)) <= 1

ReturnsStoredDoc ==
    \A p \in Procs :
        (pc[p] \in {"insert", "reread"} /\ pc'[p] = "loaded") =>
            LET i == FindOne(banditDocs', eff[p].chat)
            IN  /\ i # 0
                /\ state'[p].idx = i
                /\ state'[p].arms = banditDocs'[i].arms
                /\ loadedArms'[p] = banditDocs'[i].arms

C1_SingleDocument == [](OneDocPerChat) /\ [][ReturnsStoredDoc]_vars

\* two calls raced on the creation: one inserted, the other got the
\* duplicate-key error and re-read, and both hold the one stored document
C1_Witness ==
    \E p, q \in Procs :
        /\ p # q
        /\ pc[p] = "loaded" /\ pc[q] = "loaded"
        /\ [kind |-> "insert", arm |-> "", phase |-> "insert"]
                \in interference[p]
        /\ state[p].idx = state[q].idx
        /\ Len(banditDocs) = 1

----------------------------------------------------------------------------
(* C2: of the submitFeedback requests that carry one message's id, at most *)
(* one invokes updateArm; every request that loses the atomic set answers  *)
(* "already_rated" and writes neither the bandit collection nor the        *)
(* message.                                                                *)

AtMostOneUpdatePerMessage == \A m \in DOMAIN messages : updCalls[m] <= 1

LoserIsNoOp ==
    \A p \in Procs :
        /\ (pc[p] = "gate" /\ pc'[p] = "gate_reread") =>
                /\ banditDocs' = banditDocs
                /\ messages' = messages
                /\ updCalls' = updCalls
        /\ (pc[p] = "gate_reread" /\ pc'[p] # "gate_reread") =>
                /\ resp'.proc = p
                /\ resp'.status = "already_rated"
                /\ banditDocs' = banditDocs
                /\ messages' = messages
                /\ updCalls' = updCalls

C2_AtMostOnce == [](AtMostOneUpdatePerMessage) /\ [][LoserIsNoOp]_vars

\* two requests for one message were in flight together: the loser has
\* answered "already_rated" while the winner is still inside updateArm
C2_Witness ==
    /\ resp.status = "already_rated"
    /\ \E q \in Procs :
        /\ q # resp.proc
        /\ InUpdateArm(q)
        /\ req[q].messageId # 0
        /\ updCalls[req[q].messageId] = 1

----------------------------------------------------------------------------
(* C3: every stored ArmStats entry has alpha >= 1, beta >= 1, pulls >= 0   *)
(* and pulls = (alpha - 1) + (beta - 1), in every reachable state.         *)

C3_ArmStatsInvariant ==
    \A i \in DOMAIN banditDocs :
        \A k \in DOMAIN banditDocs[i].arms :
            LET a == banditDocs[i].arms[k]
            IN  /\ a.alpha >= 1
                /\ a.beta >= 1
                /\ a.pulls >= 0
                /\ a.pulls = (a.alpha - 1) + (a.beta - 1)

----------------------------------------------------------------------------
(* C4: when two updateArm calls on one conversation and one arm both load  *)
(* before either saves and both succeed, the second save leaves the arm's  *)
(* stored pulls at the second writer's loaded value plus 1: the first      *)
(* writer's increment is lost.                                             *)

C4_SecondSave ==
    \A p \in Procs :
        LET t == target[p]
            a == state[p].arms[t].armId
            i == state[p].idx
        IN  (SavesUpdate(p) /\ RacedOn(interference[p], a)) =>
                banditDocs'[i].arms[t].pulls = loadedArms[p][t].pulls + 1

C4_LostUpdateSameArm == [][C4_SecondSave]_vars

\* two successful updateArm calls on one arm, the second raced by the
\* first, and the arm's stored pulls is 1
C4_Witness ==
    /\ resp.status = "success"
    /\ \E c \in Chats :
        /\ "same" \in raceSeen[c]
        /\ LET i == FindOne(banditDocs, c)
               k == FindArm(banditDocs[i].arms, resp.arm_id)
               n == applied[c][resp.arm_id]
          IN  /\ i # 0 /\ k # 0
              /\ n.up + n.down = 2
              /\ banditDocs[i].arms[k].pulls = 1

----------------------------------------------------------------------------
(* C5 as stated: when two updateArm calls on one conversation and two      *)
(* different arms both load before either saves and both succeed, the      *)
(* second save puts the first writer's arm back at the values the second   *)
(* writer loaded (the first writer's increment is overwritten).            *)

C5_SecondSaveReverts ==
    \A p \in Procs :
        LET t == target[p]
            i == state[p].idx
        IN  SavesUpdate(p) =>
                \A k \in DOMAIN loadedArms[p] :
                    (k # t /\ RacedOn(interference[p], loadedArms[p][k].armId))
                        => banditDocs'[i].arms[k] = loadedArms[p][k]

C5_Original == [][C5_SecondSaveReverts]_vars

(* C5 as amended: a successful updateArm save changes the stored entry of  *)
(* its own arm only; every other arm's stored alpha, beta and pulls are    *)
(* what they were before the save, so with two different arms both         *)
(* increments persist.                                                     *)

C5_SaveTouchesOneArm ==
    \A p \in Procs :
        LET t == target[p]
            i == state[p].idx
        IN  SavesUpdate(p) =>
                /\ Len(banditDocs'[i].arms) = Len(banditDocs[i].arms)
                /\ \A k \in DOMAIN banditDocs[i].arms :
                        k # t => banditDocs'[i].arms[k] = banditDocs[i].arms[k]

C5_OtherArmKept == [][C5_SaveTouchesOneArm]_vars

\* two successful updateArm calls on different arms, the second raced by
\* the first, and both arms hold their increment
C5_Witness ==
    /\ resp.status = "success"
    /\ \E b \in RegistryIds :
        /\ b # resp.arm_id
        /\ \E c \in Chats :
            LET i == FindOne(banditDocs, c)
                arms == banditDocs[i].arms
            IN  /\ raceSeen[c] = {"other"}
                /\ i # 0
                /\ FindArm(arms, b) # 0 /\ FindArm(arms, resp.arm_id) # 0
                /\ arms[FindArm(arms, b)].pulls = 1
                /\ arms[FindArm(arms, resp.arm_id)].pulls = 1
                /\ applied[c][b].up + applied[c][b].down = 1

----------------------------------------------------------------------------
(* C6: a submitFeedback request that reaches the atomic set when the       *)
(* message's feedback is already set answers "already_rated" (a success,   *)
(* not an error) carrying the stored feedback value, whatever reward it    *)
(* asked for, and changes neither the message nor any arm's statistics.    *)

C6_NoOpOnRated ==
    \A p \in Procs :
        LET m == req[p].messageId
        IN  (/\ pc[p] \in {"gate", "gate_reread"}
             /\ pc'[p] # pc[p]
             /\ messages[m].feedback # "null") =>
                /\ banditDocs' = banditDocs
                /\ messages' = messages
                /\ applied' = applied
                /\ pc[p] = "gate" => pc'[p] = "gate_reread"
                /\ pc[p] = "gate_reread" =>
                        /\ resp'.proc = p
                        /\ resp'.status = "already_rated"
                        /\ resp'.status \notin ErrorStatuses
                        /\ resp'.existingFeedback = messages[m].feedback
                        /\ resp'.reward = req[p].reward

C6_SequentialIdempotence == [][C6_NoOpOnRated]_vars

\* a "down" request on a message rated "up" whose reward was already
\* applied is answered "already_rated" with "up", no other handler running
C6_Witness ==
    /\ resp.status = "already_rated"
    /\ resp.existingFeedback = "up"
    /\ resp.reward = 0
    /\ \A p \in Procs : pc[p] = "idle"
    /\ \E c \in Chats, a \in RegistryIds :
            applied[c][a] = [up |-> 1, down |-> 0]

----------------------------------------------------------------------------
(* C7: an updateArm call during which no other request wrote the           *)
(* conversation's document, and whose save succeeds, stores the loaded     *)
(* statistics with the target arm's pulls + 1 and alpha + 1 (reward 1) or  *)
(* beta + 1 (reward 0), every other arm unchanged, and returns the target  *)
(* arm's stored values; on a fresh conversation reward 1 gives             *)
(* {alpha 2, beta 1, pulls 1} and leaves the other arm at {1, 1, 0}.       *)

Rewarded(a, reward) ==
    [armId |-> a.armId,
     alpha |-> IF reward = 1 THEN a.alpha + 1 ELSE a.alpha,
     beta |-> IF reward = 0 THEN a.beta + 1 ELSE a.beta,
     pulls |-> a.pulls + 1]

C7_UndisturbedUpdate ==
    \A p \in Procs :
        LET t == target[p]
            i == state[p].idx
            want == Rewarded(loadedArms[p][t], req[p].reward)
        IN  (SavesUpdate(p) /\ interference[p] = {}) =>
                /\ banditDocs[i].arms = loadedArms[p]
                /\ banditDocs'[i].arms = [loadedArms[p] EXCEPT ![t] = want]
                /\ resp'.new_stats = << [alpha |-> want.alpha,
                        beta |-> want.beta, pulls |-> want.pulls] >>
                /\ (loadedArms[p] = DefaultArms /\ req[p].reward = 1) =>
                        /\ resp'.new_stats =
                             << [alpha |-> 2, beta |-> 1, pulls |-> 1] >>
                        /\ \A k \in DOMAIN DefaultArms : k # t =>
                             banditDocs'[i].arms[k] = DefaultArms[k]

C7_UpdateArmEffect == [][C7_UndisturbedUpdate]_vars

\* the only request served so far: updateArm with reward 1 on the second
\* arm of a fresh conversation
C7_Witness ==
    /\ nreq = 1
    /\ resp.status = "success"
    /\ resp.new_stats = << [alpha |-> 2, beta |-> 1, pulls |-> 1] >>
    /\ Len(banditDocs) = 1
    /\ banditDocs[1].arms =
            << NewArmStats(BaseId),
               [armId |-> StrictId, alpha |-> 2, beta |-> 1, pulls |-> 1] >>

----------------------------------------------------------------------------
(* C8: while no two updateArm calls on a conversation have overlapped,     *)
(* each arm's stored pulls is the number of successful updateArm calls     *)
(* that targeted it, alpha - 1 the number of those with reward 1 and       *)
(* beta - 1 the number with reward 0.                                      *)

C8_CountsMatch ==
    \A c \in Chats :
        ~updOverlap[c] =>
            \A a \in RegistryIds :
                LET i == FindOne(banditDocs, c)
                    k == IF i = 0 THEN 0 ELSE FindArm(banditDocs[i].arms, a)
                    n == applied[c][a]
                IN  IF k = 0
                    THEN n = [up |-> 0, down |-> 0]
                    ELSE /\ banditDocs[i].arms[k].pulls = n.up + n.down
                         /\ banditDocs[i].arms[k].alpha - 1 = n.up
                         /\ banditDocs[i].arms[k].beta - 1 = n.down

\* three calls one after the other: both rewards on one arm, one on the other
C8_Witness ==
    \E c \in Chats :
        /\ ~updOverlap[c]
        /\ applied[c][BaseId] = [up |-> 1, down |-> 1]
        /\ applied[c][StrictId].up + applied[c][StrictId].down = 1

----------------------------------------------------------------------------
(* C9: updateArm with an armId that neither the registry nor the stored    *)
(* state knows ends in an error answer, and no step of the call changes    *)
(* the bandit collection (no document created, no arm added).              *)

UnknownArm(p) ==
    /\ eff[p].arm \notin RegistryIds
    /\ \A i \in DocsOf(banditDocs, eff[p].chat) :
            FindArm(banditDocs[i].arms, eff[p].arm) = 0

C9_UnknownArmStep ==
    \A p \in Procs :
        (InUpdateArm(p) /\ UnknownArm(p) /\ pc'[p] # pc[p]) =>
            /\ banditDocs' = banditDocs
            /\ Finishes(p) => resp'.status \in ErrorStatuses

C9_UnknownArmFails == [][C9_UnknownArmStep]_vars

----------------------------------------------------------------------------
(* C10 as stated: every updateArm invocation made by submitFeedback        *)
(* follows a successful atomic set of some message's feedback flag; none   *)
(* is made without a claimed message.                                      *)

InvokesUpdateArm(p) ==
    /\ pc[p] \notin BanditPcs
    /\ pc'[p] = "find"
    /\ req'[p].op = "submitFeedback"

C10_InvokeStep ==
    \A p \in Procs :
        LET m == req'[p].messageId
        IN  (InvokesUpdateArm(p) /\ m # 0) =>
                /\ pc[p] = "gate"
                /\ messages[m].feedback = "null"
                /\ messages'[m].feedback = NextFeedback(req'[p].reward)
                /\ messages'[m].feedback # "null"

----------------------------------------------------------------------------
(* C11: once a submitFeedback request has set a message's feedback flag,   *)
(* the request ends with its reward persisted into the statistics of the   *)
(* arm that generated the message: it never finishes with the flag set     *)
(* and no reward application saved.                                        *)

C11_ClaimedIsApplied ==
    \A p \in Procs :
        LET m == req[p].messageId
            c == eff[p].chat
            a == messages[m].armId
            n == applied[c][a]
        IN  (InUpdateArm(p) /\ m # 0 /\ Finishes(p)) =>
                /\ a \in RegistryIds
                /\ applied'[c][a] =
                        IF req[p].reward = 1
                        THEN [n EXCEPT !.up = @ + 1]
                        ELSE [n EXCEPT !.down = @ + 1]

C11_ExactlyOnce == [][C11_ClaimedIsApplied]_vars

----------------------------------------------------------------------------
(* C12: a message's feedback is write-once: a chatbot message is created   *)
(* with feedback null, and once the field holds "up" or "down" no step of  *)
(* any request changes it; messages are never removed.                     *)

C12_FeedbackKept ==
    /\ Len(messages') >= Len(messages)
    /\ \A m \in DOMAIN messages :
            messages[m].feedback # "null" =>
                messages'[m].feedback = messages[m].feedback
    /\ \A m \in DOMAIN messages' \ DOMAIN messages :
            messages'[m].feedback = "null"
    /\ \A m \in DOMAIN messages' :
            messages'[m].feedback \in {"null", "up", "down"}

C12_WriteOnce == [][C12_FeedbackKept]_vars

\* a message rated "down" was asked to become "up" and still holds "down"
C12_Witness ==
    /\ resp.status = "already_rated"
    /\ resp.reward = 1
    /\ \E m \in DOMAIN messages :
        /\ messages[m].sender = "chatbot"
        /\ messages[m].feedback = "down"
        /\ updCalls[m] = 1

----------------------------------------------------------------------------
(* C13: chooseArm returns the configuration {armId, modelName,             *)
(* temperature, notes} of a registry arm of the requested stage whose      *)
(* sample is at least the sample of every other arm of that stage; among   *)
(* arms tied for the largest sample it returns the first in registry order.*)

OfStage(stage) == SelectSeq(ARMS, LAMBDA a : a.stage = stage)

C13_PickIsFirstMax ==
    picked' # NoPick =>
        LET cs == OfStage(picked'.stage)
            s == picked'.samples
        IN  /\ DOMAIN s = DOMAIN cs
            /\ \E i \in DOMAIN cs :
                /\ picked'.arm =
                     << [armId |-> cs[i].armId, modelName |-> cs[i].modelName,
                         temperature |-> cs[i].temperature,
                         notes |-> cs[i].notes] >>
                /\ \A j \in DOMAIN cs : s[j] <= s[i]
                /\ \A j \in DOMAIN cs : s[j] = s[i] => i <= j
            /\ \A p \in Procs :
                (pc[p] = "loaded" /\ pc'[p] # pc[p]) =>
                    IF req[p].op = "chooseArm"
                    THEN resp'.status = "ok"
                         /\ resp'.arm_id = picked'.arm[1].armId
                    ELSE chosen'[p] = picked'.arm[1].armId

C13_ChooseArmResult == [][C13_PickIsFirstMax]_vars

\* both arms drew the same sample and the first of the registry was returned
C13_Witness ==
    /\ picked # NoPick
    /\ Len(picked.samples) = 2
    /\ picked.samples[1] = picked.samples[2]
    /\ picked.arm[1].armId = BaseId
    /\ picked.arm[1].temperature = "0.1"

----------------------------------------------------------------------------
(* C14: no step of a chooseArm call changes the alpha, beta or pulls of a  *)
(* stored arm; a call that loaded a state holding every registry arm       *)
(* leaves the collection exactly as it was; a stored arm's counters change *)
(* only in the save of an updateArm call.                                  *)

Complete(arms) ==
    \A a \in RegistryIds : \E k \in DOMAIN arms : arms[k].armId = a

CountersKept ==
    /\ Len(banditDocs') >= Len(banditDocs)
    /\ \A i \in DOMAIN banditDocs :
        /\ Len(banditDocs'[i].arms) >= Len(banditDocs[i].arms)
        /\ \A k \in DOMAIN banditDocs[i].arms :
                banditDocs'[i].arms[k] = banditDocs[i].arms[k]

C14_ChooseArmStep ==
    /\ \A p \in Procs :
        (req[p].op \in {"chooseArm", "aiReply"} /\ pc'[p] # pc[p]) =>
            /\ CountersKept
            /\ (/\ state[p].idx # 0
                /\ Complete(SubSeq(state[p].arms, 1,
                        Len(state[p].arms) - Len(state[p].pushed)))) =>
                    banditDocs' = banditDocs
    /\ ~CountersKept => \E p \in Procs : SavesUpdate(p)

C14_ChooseArmKeepsCounters == [][C14_ChooseArmStep]_vars

\* chooseArm returned an arm whose stored pulls is 1, from a complete state
C14_Witness ==
    /\ resp.op = "chooseArm"
    /\ resp.status = "ok"
    /\ \E i \in DOMAIN banditDocs :
        /\ Complete(banditDocs[i].arms)
        /\ \E k \in DOMAIN banditDocs[i].arms :
            /\ banditDocs[i].arms[k].armId = resp.arm_id
            /\ banditDocs[i].arms[k].pulls = 1

----------------------------------------------------------------------------
(* C15: getBanditStats is read-only: no step of a getBanditStats request   *)
(* changes the stored documents, whether or not the conversation has one.  *)

C15_StatsStep ==
    \A p \in Procs :
        (req[p].op = "getBanditStats" /\ pc'[p] # pc[p]) =>
            banditDocs' = banditDocs

C15_ReadOnly == [][C15_StatsStep]_vars

----------------------------------------------------------------------------
(* C16: chooseArm with a stage for which the registry has no arm ends, in  *)
(* the step after the state was loaded, with the NoArmsForStage error and  *)
(* no arm: it neither tries again nor falls back to an arm.                *)

C16_NoArmStep ==
    \A p \in Procs :
        (/\ pc[p] = "loaded"
         /\ req[p].op = "chooseArm"
         /\ OfStage(req[p].stage) = << >>
         /\ pc'[p] # pc[p]) =>
            /\ Finishes(p)
            /\ resp'.proc = p
            /\ resp'.status = "NoArmsForStage"
            /\ resp'.status \in ErrorStatuses
            /\ resp'.arm_id = ""
            /\ picked' = NoPick

C16_NoArmsForStage == [][C16_NoArmStep]_vars

\* a chooseArm call for the stage "other" was answered with the error
C16_Witness ==
    /\ resp.op = "chooseArm"
    /\ resp.status = "NoArmsForStage"
    /\ resp.arm_id = ""
    /\ picked = NoPick
    /\ Len(banditDocs) = 1

----------------------------------------------------------------------------
(* C17: when the stored state of a conversation lacks a registry arm, a    *)
(* chooseArm or getBanditStats call goes through reconciliation: its save  *)
(* keeps every stored arm entry as it was, removes none, and stores the    *)
(* missing arm at {alpha 1, beta 1, pulls 0}; the state it returns is the  *)
(* loaded one followed by that arm, and the statistics getBanditStats      *)
(* answers hold every registry arm.                                        *)

NeutralPrior(a) == [armId |-> a, alpha |-> 1, beta |-> 1, pulls |-> 0]

Has(arms, a) == \E k \in DOMAIN arms : arms[k].armId = a

C17_ReconcileStep ==
    \A p \in Procs :
        (req[p].op \in {"chooseArm", "aiReply", "getBanditStats"}
            /\ pc'[p] # pc[p]) =>
            LET i == FindOne(banditDocs, eff[p].chat)
                j == state[p].idx
                loaded == SubSeq(state[p].arms, 1,
                            Len(state[p].arms) - Len(state[p].pushed))
            IN  /\ (pc[p] = "find" /\ i # 0
                        /\ ~Complete(banditDocs[i].arms)) =>
                        pc'[p] = "reconcile"
                /\ pc[p] = "reconcile" =>
                    /\ pc'[p] = "loaded"
                    /\ Len(banditDocs') = Len(banditDocs)
                    /\ Len(banditDocs'[j].arms) >= Len(banditDocs[j].arms)
                    /\ SubSeq(banditDocs'[j].arms, 1, Len(banditDocs[j].arms))
                            = banditDocs[j].arms
                    /\ ~Complete(loaded)
                    /\ SubSeq(state'[p].arms, 1, Len(loaded)) = loaded
                    /\ Complete(state'[p].arms)
                    /\ \A a \in RegistryIds : ~Has(loaded, a) =>
                        /\ \E k \in DOMAIN banditDocs'[j].arms :
                                banditDocs'[j].arms[k] = NeutralPrior(a)
                        /\ \E k \in DOMAIN state'[p].arms :
                                state'[p].arms[k] = NeutralPrior(a)
                    /\ interference[p] = {} =>
                        banditDocs'[j].arms = state'[p].arms
                /\ (pc[p] = "loaded" /\ req[p].op = "getBanditStats") =>
                    /\ resp'.status = "ok"
                    /\ \A a \in RegistryIds : Has(resp'.stats, a)
                    /\ \A k \in DOMAIN state[p].arms :
                        \E n \in DOMAIN resp'.stats :
                            resp'.stats[n].armId = state[p].arms[k].armId

C17_Reconciliation == [][C17_ReconcileStep]_vars

\* the only request so far, getBanditStats on the state that held one arm,
\* answered both arms and the stored document gained the second
C17_Witness ==
    /\ nreq = 1
    /\ resp.op = "getBanditStats"
    /\ resp.status = "ok"
    /\ resp.stats = << NeutralPrior(BaseId), NeutralPrior(StrictId) >>
    /\ Len(banditDocs) = 1
    /\ banditDocs[1].v = 1
    /\ banditDocs[1].arms = << NeutralPrior(BaseId), NeutralPrior(StrictId) >>

----------------------------------------------------------------------------
(* C18: under any interleaving of getOrCreateBanditState calls on a state  *)
(* that lacks a registry arm, a stored document never holds two entries    *)
(* for one armId, and a reconciliation save leaves the counters of every   *)
(* stored entry as they were.                                              *)

C18_OneEntryPerArm ==
    \A i \in DOMAIN banditDocs :
        \A k, n \in DOMAIN banditDocs[i].arms :
            banditDocs[i].arms[k].armId = banditDocs[i].arms[n].armId => k = n

C18_ReconcileKeeps ==
    \A p \in Procs :
        (pc[p] = "reconcile" /\ pc'[p] # pc[p]) => CountersKept

C18_IdempotentAppend == [](C18_OneEntryPerArm) /\ [][C18_ReconcileKeeps]_vars

----------------------------------------------------------------------------
(* C19: every state getOrCreateBanditState returns, whether it was found,  *)
(* freshly inserted or re-read after a duplicate-key error, is a document  *)
(* holding an entry for every armId of the registry.                       *)

C19_ReturnedComplete ==
    \A p \in Procs :
        pc[p] = "loaded" =>
            /\ state[p].idx # 0
            /\ Complete(state[p].arms)

\* two calls raced to create the state: one inserted, the other re-read
\* after the duplicate-key error, and both hold their returned state
C19_Witness ==
    \E p, q \in Procs :
        /\ p # q
        /\ pc[p] = "loaded"
        /\ pc[q] = "loaded"
        /\ [kind |-> "insert", arm |-> "", phase |-> "insert"]
                \in interference[p]
        /\ state[p].arms = banditDocs[state[p].idx].arms

----------------------------------------------------------------------------
(* C20: a getOrCreateBanditState call that finds no stored state for its   *)
(* conversation goes on to insert, and its insert, when no state was       *)
(* stored meanwhile, adds one document for that conversation holding one   *)
(* entry per registry arm, in registry order, each at alpha 1, beta 1,     *)
(* pulls 0.                                                                *)

C20_CreateStep ==
    \A p \in Procs :
        (InBanditCall(p) /\ pc'[p] # pc[p]
            /\ DocsOf(banditDocs, eff[p].chat) = {}) =>
            /\ pc[p] = "find" => pc'[p] = "insert"
            /\ pc[p] = "insert" =>
                /\ banditDocs' = Append(banditDocs,
                        [chat |-> eff[p].chat,
                         arms |-> [i \in 1..Len(ARMS) |->
                                    NeutralPrior(ARMS[i].armId)],
                         v |-> 0])
                /\ pc'[p] = "loaded"
                /\ state'[p].arms = banditDocs'[Len(banditDocs')].arms
            /\ pc[p] \in {"find", "insert"}

C20_LazyCreation == [][C20_CreateStep]_vars

\* the first call for the conversation has just inserted its document
C20_Witness ==
    /\ nreq = 1
    /\ pc[1] = "loaded"
    /\ banditDocs = << [chat |-> eff[1].chat,
                        arms |-> << NeutralPrior(BaseId),
                                    NeutralPrior(StrictId) >>,
                        v |-> 0] >>

----------------------------------------------------------------------------
(* C21: operations on different conversations are independent: a step of   *)
(* a request serving conversation c changes no stored state of another     *)
(* conversation and adds documents only for c; and what a getBanditStats   *)
(* or updateArm call on c answers and stores is determined by c's own      *)
(* stored state, whatever requests on other conversations ran meanwhile.   *)

ChatOf(p) == IF eff[p].chat # 0 THEN eff[p].chat ELSE eff'[p].chat

C21_Step ==
    \A p \in Procs :
        pc'[p] # pc[p] =>
            LET c == ChatOf(p)
                j == FindOne(banditDocs, c)
                t == target[p]
            IN  /\ Len(banditDocs') >= Len(banditDocs)
                /\ \A i \in DOMAIN banditDocs :
                        banditDocs[i].chat # c => banditDocs'[i] = banditDocs[i]
                /\ \A i \in DOMAIN banditDocs' \ DOMAIN banditDocs :
                        banditDocs'[i].chat = c
                /\ \A d \in AllChats \ {c} : applied'[d] = applied[d]
                /\ (pc[p] = "loaded" /\ req[p].op = "getBanditStats"
                        /\ interference[p] = {}) =>
                        /\ j # 0
                        /\ state[p].arms = banditDocs[j].arms
                        /\ \A k \in DOMAIN resp'.stats :
                            \E n \in DOMAIN banditDocs[j].arms :
                                resp'.stats[k] = banditDocs[j].arms[n]
                /\ (SavesUpdate(p) /\ interference[p] = {}) =>
                        /\ j = state[p].idx
                        /\ banditDocs[j].arms = loadedArms[p]
                        /\ banditDocs'[j].arms = [loadedArms[p] EXCEPT
                                ![t] = Rewarded(@, req[p].reward)]

C21_Independence == [][C21_Step]_vars

\* two updateArm calls, one per conversation, are both about to save
C21_Witness ==
    \E p, q \in Procs :
        /\ pc[p] = "upd_save"
        /\ pc[q] = "upd_save"
        /\ eff[p].chat = 1
        /\ eff[q].chat = 2
        /\ Len(banditDocs) = 2

----------------------------------------------------------------------------
(* C22 as stated: every call, of getOrCreateBanditState, chooseArm and     *)
(* updateArm alike, issues at most two reads and one write of the state.   *)

PcRank(l) ==
    CASE l = "find" -> 1
      [] l \in {"insert", "reconcile"} -> 2
      [] l = "reread" -> 3
      [] l = "loaded" -> 4
      [] l \in {"upd_save", "ai_create"} -> 5
      [] OTHER -> 6

C22_Bounded ==
    \A p \in Procs :
        InBanditCall(p) =>
            /\ io[p].r <= 2
            /\ io[p].w <= (IF pc[p] = "upd_save" THEN 2 ELSE 1)
            /\ io[p].r + io[p].w >= 1
            /\ pc[p] = "upd_save" => req[p].op = "submitFeedback"

C22_Step ==
    \A p \in Procs :
        (InBanditCall(p) /\ pc'[p] # pc[p]) =>
            /\ PcRank(pc'[p]) > PcRank(pc[p])
            /\ pc'[p] = "reread" =>
                /\ pc[p] = "insert"
                /\ DocsOf(banditDocs, eff[p].chat) # {}
                /\ io'[p] = [io[p] EXCEPT !.r = @ + 1]
                /\ banditDocs' = banditDocs
            /\ pc[p] = "reread" => pc'[p] \in {"loaded", "idle"}
            /\ (pc[p] \in {"find", "insert", "reread", "reconcile"}
                    /\ Finishes(p)) =>
                /\ resp'.proc = p
                /\ resp'.status \in {"500", "StoreError"}
                /\ banditDocs' = banditDocs
            /\ (pc[p] = "upd_save" /\ resp'.status # "success") =>
                /\ resp'.status = "500"
                /\ banditDocs' = banditDocs

----------------------------------------------------------------------------
(* C24: a chatbot message is saved only by aiReplyHandler, with its own    *)
(* chat, the armId that the chooseArm call of the same request returned    *)
(* for that chat and stage "unified" (whatever arm id the generator        *)
(* reported) and feedback null; so every chatbot message's armId is the    *)
(* id of a registry arm of stage "unified".                                *)

UnifiedIds == { ARMS[i].armId : i \in { k \in DOMAIN ARMS :
                                            ARMS[k].stage = "unified" } }

C24_TaggedUnified ==
    \A m \in DOMAIN messages :
        messages[m].sender = "chatbot" => messages[m].armId \in UnifiedIds

C24_Step ==
    /\ \A p \in Procs :
        /\ (req[p].op = "aiReply" /\ pc[p] = "loaded" /\ pc'[p] = "ai_create")
            =>  /\ picked'.stage = "unified"
                /\ chosen'[p] = picked'.arm[1].armId
                /\ state[p].chat = eff[p].chat
                /\ eff'[p] = eff[p]
        /\ (pc[p] = "ai_create" /\ pc'[p] # pc[p]) =>
                \/ messages' = messages
                \/ messages' = Append(messages,
                        [chat |-> eff[p].chat, sender |-> "chatbot",
                         armId |-> chosen[p], feedback |-> "null"])
    /\ \A m \in DOMAIN messages' \ DOMAIN messages :
        messages'[m].sender = "chatbot" =>
            \E p \in Procs : pc[p] = "ai_create" /\ Finishes(p)

C24_MessageTagged == [](C24_TaggedUnified) /\ [][C24_Step]_vars

\* aiReplyHandler has just saved a message tagged with the second arm
C24_Witness ==
    /\ resp.op = "aiReply"
    /\ resp.status = "ok"
    /\ resp.arm_id = StrictId
    /\ messages # << >>
    /\ messages[Len(messages)] =
            [chat |-> 1, sender |-> "chatbot", armId |-> StrictId,
             feedback |-> "null"]

----------------------------------------------------------------------------
(* C25: getOrCreateBanditState writes a found state only when it added an  *)
(* arm: a call that finds a stored state holding every registry arm goes   *)
(* on without issuing a write; a reconciliation save is issued only for a  *)
(* found state that lacks an arm, and, undisturbed, leaves the stored      *)
(* state complete, so that the next call on the conversation writes        *)
(* nothing.                                                                *)

C25_Step ==
    \A p \in Procs :
        (InBanditCall(p) /\ pc'[p] # pc[p]) =>
            LET i == FindOne(banditDocs, eff[p].chat)
                j == state[p].idx
            IN  /\ (pc[p] = "find" /\ i # 0 /\ Complete(banditDocs[i].arms))
                    =>  /\ pc'[p] = "loaded"
                        /\ io'[p] = [r |-> 1, w |-> 0]
                        /\ banditDocs' = banditDocs
                /\ pc'[p] = "reconcile" =>
                        /\ pc[p] = "find"
                        /\ i # 0
                        /\ ~Complete(banditDocs[i].arms)
                        /\ io'[p] = [r |-> 1, w |-> 1]
                /\ pc[p] = "reconcile" =>
                        /\ state[p].pushed # << >>
                        /\ banditDocs'[j].v = banditDocs[j].v + 1
                        /\ interference[p] = {} =>
                            /\ Complete(banditDocs'[j].arms)
                            /\ Len(banditDocs'[j].arms) = Len(ARMS)

C25_PersistOnlyIfAdded == [][C25_Step]_vars

\* the second of two calls in a row found the reconciled state, written
\* once, and holds it without having issued a write
C25_Witness ==
    /\ nreq = 2
    /\ pc[1] = "loaded"
    /\ pc[2] = "idle"
    /\ io[1] = [r |-> 1, w |-> 0]
    /\ banditDocs = << [chat |-> 1,
                        arms |-> << NeutralPrior(BaseId),
                                    NeutralPrior(StrictId) >>,
                        v |-> 1] >>

----------------------------------------------------------------------------
(* C26: the sampler always returns: every sampleBeta or sampleGamma call   *)
(* in progress reaches its return (the rejection loop accepts in the end,  *)
(* the draws being fair); for shape >= 1 the loop is left only with v > 0  *)
(* and sampleGamma returns a positive value without calling itself; for    *)
(* 0 < shape < 1 sampleGamma calls itself exactly once, with a shape >= 1; *)
(* sampleBeta with alpha, beta >= 1 returns the quotient of two positive   *)
(* values.                                                                 *)

C26_Safe ==
    /\ smp.depth <= 1
    /\ smp.rec <= 1
    /\ smp.rec = smp.depth \/ smp.pc \in {"ret", "done"}
    /\ smp.pc \in {"draw", "test"} => smp.shape2 >= 2
    /\ smp.pc = "test" => smp.v > 0
    /\ (smp.pc = "ret" /\ smp.depth = smp.rec) => smp.v > 0
    /\ smp.pc \in {"entry", "draw", "test", "ret"} =>
            smp.rec = (IF smp.call = "sampleGamma" /\ smp.alpha2 < 2
                          /\ ~(smp.pc = "entry" /\ smp.shape2 < 2)
                       THEN 1 ELSE 0)
    /\ (smp.pc = "done" /\ smp.call = "sampleGamma") =>
            /\ smp.rec = (IF smp.alpha2 < 2 THEN 1 ELSE 0)
            /\ smp.alpha2 >= 2 => smp.gA > 0
    /\ (smp.pc = "done" /\ smp.call = "sampleBeta") =>
            /\ smp.rec = 0
            /\ smp.gA > 0
            /\ smp.gB > 0
            /\ smp.gA < smp.gA + smp.gB

C26_SamplerReturns ==
    /\ [](C26_Safe)
    /\ (smp.pc \in {"entry", "draw", "test", "ret"}) ~> (smp.pc = "done")

\* sampleGamma(0.5) returned a positive value after one call of itself
C26_Witness ==
    /\ smp.pc = "done"
    /\ smp.call = "sampleGamma"
    /\ smp.alpha2 = 1
    /\ smp.rec = 1
    /\ smp.gA > 0

----------------------------------------------------------------------------
(* C27: chooseArm loads or creates the state before it checks the stage:   *)
(* when a chooseArm call fails because the stage has no arms, the state    *)
(* was read first and the conversation has exactly one stored document,    *)
(* holding every registry arm; when the call created it and no other       *)
(* request wrote to it since, every arm is at alpha 1, beta 1, pulls 0.    *)

C27_Step ==
    (resp'.op = "chooseArm" /\ resp'.status = "NoArmsForStage") =>
        LET p == resp'.proc
            c == eff[p].chat
            i == FindOne(banditDocs', c)
        IN  /\ io[p].r >= 1
            /\ c \in chats
            /\ Cardinality({ j \in DOMAIN banditDocs' :
                                banditDocs'[j].chat = c }) = 1
            /\ i = state[p].idx
            /\ Complete(banditDocs'[i].arms)
            /\ (io[p] = [r |-> 1, w |-> 1] /\ state[p].v = 0
                    /\ interference[p] = {}) =>
                    /\ Len(banditDocs'[i].arms) = Len(ARMS)
                    /\ \A k \in DOMAIN ARMS :
                        banditDocs'[i].arms[k] = NeutralPrior(ARMS[k].armId)

C27_StateBeforeStage == [][C27_Step]_vars

\* the first request, chooseArm for a stage without arms on a conversation
\* without stored state, failed and left the default state behind
C27_Witness ==
    /\ nreq = 1
    /\ resp.op = "chooseArm"
    /\ resp.status = "NoArmsForStage"
    /\ Len(banditDocs) = 1
    /\ banditDocs[1].chat = 1
    /\ banditDocs[1].v = 0
    /\ \A k \in DOMAIN ARMS :
            banditDocs[1].arms[k] = NeutralPrior(ARMS[k].armId)

----------------------------------------------------------------------------
(* C28: counters are monotone: from one store state to the next, the       *)
(* stored alpha, beta and pulls of each arm of each conversation do not    *)
(* decrease, and no armId stored for a conversation disappears.            *)

C28_ArmsKept ==
    \A i \in DOMAIN banditDocs :
        /\ i \in DOMAIN banditDocs'
        /\ banditDocs'[i].chat = banditDocs[i].chat
        /\ \A k \in DOMAIN banditDocs[i].arms :
            /\ k \in DOMAIN banditDocs'[i].arms
            /\ banditDocs'[i].arms[k].armId = banditDocs[i].arms[k].armId

C28_Step ==
    /\ C28_ArmsKept
    /\ \A i \in DOMAIN banditDocs :
        \A k \in DOMAIN banditDocs[i].arms :
            /\ banditDocs'[i].arms[k].alpha >= banditDocs[i].arms[k].alpha
            /\ banditDocs'[i].arms[k].beta >= banditDocs[i].arms[k].beta
            /\ banditDocs'[i].arms[k].pulls >= banditDocs[i].arms[k].pulls

C28_Monotone == [][C28_Step]_vars

\* the part that holds: documents and arm entries are only ever added
C28_NeverShrinks == [][C28_ArmsKept]_vars

----------------------------------------------------------------------------
(* C29: feedback for a message that carries an armId goes to the message's *)
(* own conversation and arm: the handler's effective chat and arm are the  *)
(* message's, the save of updateArm changes only that arm of that          *)
(* conversation, and two request bodies that differ only in the arm_id and *)
(* chatId the client sent take the handler to the same state.  As stated,  *)
(* for every arm_id; as it holds, for every non-empty arm_id.              *)

\* the bodies that name a message carrying an armId
C29_Bodies(armIds) ==
    { b \in FeedbackBodies(messages) :
        /\ b.arm_id \in armIds
        /\ b.messageId \in DOMAIN messages
        /\ messages[b.messageId].armId # "null" }

\* a step that serves one of these bodies also serves every body that
\* differs from it in arm_id and chatId only
C29_SameStep(armIds) ==
    nreq' # nreq =>
        \A p \in Procs :
            Free(p) =>
                \A b \in C29_Bodies(armIds), access \in {"ok", "403", "404"} :
                    SubmitFeedbackBody(p, b, access) =>
                        \A a \in armIds, c \in {0} \cup chats :
                            SubmitFeedbackBody(p,
                                [b EXCEPT !.arm_id = a, !.chatId = c], access)

C29_OwnTarget ==
    \A p \in Procs :
        LET m == req'[p].messageId
        IN  (req'[p].op = "submitFeedback" /\ m # 0
                /\ messages[m].armId # "null") =>
                eff'[p] = [chat |-> messages[m].chat,
                           arm |-> messages[m].armId]

C29_OwnSave ==
    \A p \in Procs :
        LET m == req[p].messageId
        IN  (pc[p] = "upd_save" /\ pc'[p] = "idle" /\ m # 0
                /\ messages[m].armId # "null") =>
                \A i \in DOMAIN banditDocs :
                    \A k \in DOMAIN banditDocs[i].arms :
                        banditDocs'[i].arms[k] # banditDocs[i].arms[k] =>
                            /\ banditDocs[i].chat = messages[m].chat
                            /\ banditDocs[i].arms[k].armId = messages[m].armId

----------------------------------------------------------------------------
(* C30: no over-counting: as long as every submitFeedback request that     *)
(* reached updateArm carried a messageId, the pulls of all arms of a       *)
(* conversation sum to at most the number of its chatbot messages whose    *)
(* feedback is set, and their (alpha - 1) to at most the number of its     *)
(* messages with feedback "up".                                            *)

RECURSIVE SumPulls(_, _)
SumPulls(arms, k) ==
    IF k > Len(arms) THEN 0 ELSE arms[k].pulls + SumPulls(arms, k + 1)

RECURSIVE SumUps(_, _)
SumUps(arms, k) ==
    IF k > Len(arms) THEN 0 ELSE (arms[k].alpha - 1) + SumUps(arms, k + 1)

RatedMessages(c, values) ==
    { m \in DOMAIN messages :
        /\ messages[m].chat = c
        /\ messages[m].sender = "chatbot"
        /\ messages[m].feedback \in values }

C30_NoOverCounting ==
    updCalls[0] = 0 =>
        \A i \in DOMAIN banditDocs :
            LET c == banditDocs[i].chat
            IN  /\ SumPulls(banditDocs[i].arms, 1)
                        <= Cardinality(RatedMessages(c, {"up", "down"}))
                /\ SumUps(banditDocs[i].arms, 1)
                        <= Cardinality(RatedMessages(c, {"up"}))

\* one message was rated up and its reward is stored: both sums are at
\* their limit of 1
C30_Witness ==
    /\ updCalls[0] = 0
    /\ \E i \in DOMAIN banditDocs :
        /\ SumPulls(banditDocs[i].arms, 1) = 1
        /\ SumUps(banditDocs[i].arms, 1) = 1
        /\ Cardinality(RatedMessages(banditDocs[i].chat, {"up"})) = 1

====
